---- MODULE Spec2Model ----
(***************************************************************************)
(* Model of lambda_function.py: the Alexa -> Lambda -> Perplexity adapter. *)
(* Text is modelled as a sequence of one-character strings, so that the    *)
(* sanitizer clean_text works on characters the way the regular            *)
(* expressions of the source do.                                           *)
(***************************************************************************)
EXTENDS Integers, Sequences, FiniteSets, TLC

VARIABLES
    event,            \* the inbound event handler was invoked with
    apiKey,           \* PERPLEXITY_API_KEY, read once at import
    pc,               \* position of the invocation
    query,            \* handler's local query
    upstream,         \* what urlopen and the reading of its reply produced
    response,         \* the values handler returned: <<>> or <<envelope>>
    raised,           \* the exception that left handler, "none" when none
    netCalls,         \* number of calls of urllib.request.urlopen
    extractCalls,     \* number of calls of extract_query
    perplexityCalls,  \* number of calls of call_perplexity
    text,             \* sanitizer on its own: the input text
    cleaned,          \* clean_text(text)
    recleaned         \* clean_text(clean_text(text))

handlerVars ==
    <<event, apiKey, query, upstream, response, raised, netCalls,
      extractCalls, perplexityCalls>>

cleanVars == <<text, cleaned, recleaned>>

vars == <<handlerVars, cleanVars, pc>>

(***************************************************************************)
(* Bounds of the model.                                                    *)
(***************************************************************************)
MaxSlots == 2
MaxShort == 4
MaxHead == 1
MaxTail == 1
FillSlack == 1

(***************************************************************************)
(* clean_text                                                              *)
(***************************************************************************)
max_len == 700

\* "... Let me know if you want more."
TRUNCATION_SUFFIX ==
    <<".", ".", ".", " ", "L", "e", "t", " ", "m", "e", " ", "k", "n", "o",
      "w", " ", "i", "f", " ", "y", "o", "u", " ", "w", "a", "n", "t", " ",
      "m", "o", "r", "e", ".">>

\* the backtick character (a TLA+ string cannot hold it)
BACKTICK == "<backtick>"

\* the class \s of the regular expressions, and of str.strip / str.rstrip
IsSpace(c) == c \in {" ", "\n", "\t"}

\* mutant: re.sub(..., count=1), only the first occurrence is removed
RemoveFirstChar(s, cs) ==
    LET hits == {i \in 1..Len(s) : s[i] \in cs}
    IN  IF hits = {} THEN s
        ELSE LET f == CHOOSE i \in hits : \A j \in hits : i <= j
             IN  SubSeq(s, 1, f - 1) \o SubSeq(s, f + 1, Len(s))

\* re.sub(<a pattern matching runs of the characters cs>, "", s)
RemoveChars(s, cs) == SelectSeq(s, LAMBDA c : c \notin cs)

\* the indices 1..Len(s), as a sequence
Indices(s) == [i \in 1..Len(s) |-> i]

\* the first index >= i of s that holds no whitespace, Len(s)+1 when none
RECURSIVE SkipSpace(_, _)
SkipSpace(s, i) ==
    IF i <= Len(s) /\ IsSpace(s[i]) THEN SkipSpace(s, i + 1) ELSE i

\* mutant: the pattern without its anchor "^"
AtLineStartAnywhere(s, i) == TRUE

\* "^" under re.MULTILINE: the start of the text, or just after a newline
AtLineStart(s, i) == i = 1 \/ s[i - 1] = "\n"

\* the end (exclusive) of a match of ^\s*-\s* that starts at i, 0 when the
\* pattern does not match at i
BulletMatchEnd(s, i) ==
    IF ~AtLineStart(s, i) THEN 0
    ELSE LET d == SkipSpace(s, i)
         IN  IF d <= Len(s) /\ s[d] = "-" THEN SkipSpace(s, d + 1) ELSE 0

\* the positions where ^\s*-\s* matches
BulletCandidates(s) == {i \in 1..Len(s) : BulletMatchEnd(s, i) # 0}

\* re.sub scans left to right and takes non-overlapping matches: the starts
\* of the matches taken at or after position from
RECURSIVE BulletMatches(_, _)
BulletMatches(s, from) ==
    LET later == {i \in BulletCandidates(s) : i >= from}
    IN  IF later = {} THEN {}
        ELSE LET m == CHOOSE i \in later : \A j \in later : i <= j
             IN  {m} \cup BulletMatches(s, BulletMatchEnd(s, m))

\* re.sub(r"^\s*-\s*", "", s, flags=re.MULTILINE)
RemoveBullets(s) ==
    LET ms   == BulletMatches(s, 1)
        gone == {i \in 1..Len(s) :
                    \E m \in ms : m <= i /\ i < BulletMatchEnd(s, m)}
        keep == SelectSeq(Indices(s), LAMBDA i : i \notin gone)
    IN  IF ms = {} THEN s ELSE [k \in 1..Len(keep) |-> s[keep[k]]]

\* s.replace("\n", " ")
ReplaceNewlines(s) == [i \in 1..Len(s) |-> IF s[i] = "\n" THEN " " ELSE s[i]]

\* re.sub(r"\s+", " ", s)
CollapseSpaces(s) ==
    LET keep == SelectSeq(Indices(s),
                    LAMBDA i : ~IsSpace(s[i]) \/ i = 1 \/ ~IsSpace(s[i - 1]))
    IN  [k \in 1..Len(keep) |-> IF IsSpace(s[keep[k]]) THEN " " ELSE s[keep[k]]]

\* str.rstrip()
RECURSIVE rstrip(_)
rstrip(s) ==
    IF s # <<>> /\ IsSpace(s[Len(s)]) THEN rstrip(SubSeq(s, 1, Len(s) - 1))
    ELSE s

\* str.strip()
strip(s) == LET r == rstrip(s) IN SubSeq(r, SkipSpace(r, 1), Len(r))

\* lines 37-53 of clean_text: the text before the length limit
Normalize(s) ==
    LET t1 == RemoveChars(s, {"*"})
        t2 == RemoveChars(t1, {"_"})
        t3 == RemoveChars(t2, {BACKTICK})
        t4 == RemoveChars(t3, {"#"})
        t5 == RemoveChars(t4, {"[", "]"})
        t6 == RemoveChars(t5, {"(", ")"})
        t7 == RemoveBullets(t6)
        t8 == ReplaceNewlines(t7)
    IN  strip(CollapseSpaces(t8))

\* mutant: "len(text) >= max_len"
LimitLengthOffByOne(s) ==
    IF Len(s) >= max_len
    THEN rstrip(SubSeq(s, 1, max_len)) \o TRUNCATION_SUFFIX
    ELSE s

\* lines 55-58 of clean_text
LimitLength(s) ==
    IF Len(s) > max_len
    THEN rstrip(SubSeq(s, 1, max_len)) \o TRUNCATION_SUFFIX
    ELSE s

clean_text(s) == IF s = <<>> THEN s ELSE LimitLength(Normalize(s))

(***************************************************************************)
(* Values.  None stands for Python's None (also the result of dict.get on  *)
(* a missing key).  A speech text is either one of the fixed sentences     *)
(* (msg) or sanitized upstream content (chars).                            *)
(***************************************************************************)
None == "<None>"

\* mutant: "is not None" instead of truthiness
TruthyNotNone(v) == v # None

Truthy(v) == v \notin {None, ""}

Fixed(m) == [msg |-> m, chars |-> <<>>]
Spoken(cs) == [msg |-> "", chars |-> cs]

GREETING ==
    "Hi, I'm your Perplexity news agent. Ask me something like: what's the latest about OpenAI today?"
CLARIFICATION ==
    "I didn't quite catch that. Try saying something like: tell me the latest about OpenAI."
NO_TOPIC == "I didn't get the topic. Try saying: tell me the latest about OpenAI."
GOODBYE == "Goodbye."
NOT_CONFIGURED ==
    "Perplexity API key is not configured. Please set the PERPLEXITY_API_KEY environment variable in Lambda."
NO_USEFUL_RESPONSE == "I couldn't get a useful response from Perplexity."
NO_CONTENT == "Perplexity didn't return any content for this question."
AUTH_FAILED == "Authentication with Perplexity failed. Please check your API key."
PROBLEM_CONTACTING == "I had a problem contacting Perplexity."
COULD_NOT_REACH == "I couldn't reach Perplexity right now. Please try again."
SOMETHING_WRONG == "Something went wrong while processing your request."

(***************************************************************************)
(* Inbound events.  request.intent.slots is an insertion-ordered mapping:  *)
(* a sequence of items [name, slot] with distinct names.  A slot entry is  *)
(* JSON null, a JSON string (an entry that is no object), or an object     *)
(* whose "value" is absent (None), empty or a non-empty string.            *)
(***************************************************************************)
RequestTypes == {"LaunchRequest", "IntentRequest", "SessionEndedRequest", None}

IntentNames == {"AMAZON.FallbackIntent", "AskIntent", None}

SlotNames == {"query", "Query", "topic", "subject"}

SlotValues == {None, "", "openai", "weather"}

SlotEntries ==
    {[kind |-> "null", value |-> None], [kind |-> "string", value |-> None]}
        \cup {[kind |-> "object", value |-> v] : v \in SlotValues}

SlotItems == [name : SlotNames, slot : SlotEntries]

RECURSIVE SlotMappings(_)
SlotMappings(n) ==
    IF n = 0 THEN {<<>>}
    ELSE LET shorter == SlotMappings(n - 1)
         IN  shorter \cup
             UNION {{Append(m, it) : it \in
                        {x \in SlotItems : \A i \in 1..Len(m) : m[i].name # x.name}} :
                    m \in shorter}

\* the "slots" key of the intent: missing, null, or a mapping
SlotsFields ==
    {[kind |-> "missing", items |-> <<>>], [kind |-> "null", items |-> <<>>]}
        \cup {[kind |-> "mapping", items |-> m] : m \in SlotMappings(MaxSlots)}

\* the "intent" key of the request: missing, or an object
IntentFields ==
    {[kind |-> "missing", name |-> None, slots |-> [kind |-> "missing", items |-> <<>>]]}
        \cup [kind : {"object"}, name : IntentNames, slots : SlotsFields]

Events == [type : RequestTypes, intent : IntentFields]

ApiKeys == {None, "", "pplx-key"}

(***************************************************************************)
(* extract_query                                                           *)
(***************************************************************************)
\* a result of a Python call: the value returned, or the exception raised
Return(v) == [exc |-> "none", value |-> v]
Raise(e) == [exc |-> e, value |-> None]

\* intent.get("slots", {}) or {}
SlotsOf(ev) ==
    IF ev.intent.slots.kind = "mapping" THEN ev.intent.slots.items ELSE <<>>

\* slots.get(key)
HasKey(slots, key) == \E i \in 1..Len(slots) : slots[i].name = key
SlotsGet(slots, key) ==
    IF HasKey(slots, key)
    THEN slots[CHOOSE i \in 1..Len(slots) : slots[i].name = key].slot
    ELSE [kind |-> "null", value |-> None]

\* bool(slot): None is falsy, a non-empty string or object is truthy
SlotTruthy(slot) == slot.kind # "null"

\* slot.get("value"): only an object has the method get
SlotGetValue(slot) ==
    IF slot.kind = "object" THEN Return(slot.value) ELSE Raise("AttributeError")

\* lines 79-82: "continue" when neither key holds a value
RECURSIVE ExplicitQuery(_, _)
ExplicitQuery(slots, keys) ==
    IF keys = <<>> THEN [exc |-> "continue", value |-> None]
    ELSE LET slot == SlotsGet(slots, Head(keys))
         IN  IF ~SlotTruthy(slot) THEN ExplicitQuery(slots, Tail(keys))
             ELSE LET v == SlotGetValue(slot)
                  IN  IF v.exc # "none" THEN v
                      ELSE IF Truthy(v.value) THEN Return(v.value)
                      ELSE ExplicitQuery(slots, Tail(keys))

\* lines 85-90
RECURSIVE FirstValue(_, _)
FirstValue(slots, i) ==
    IF i > Len(slots) THEN Return(None)
    ELSE LET v == SlotGetValue(slots[i].slot)
         IN  IF v.exc # "none" THEN v
             ELSE IF Truthy(v.value) THEN Return(v.value)
             ELSE FirstValue(slots, i + 1)

extract_query(ev) ==
    IF ev.type # "IntentRequest" THEN Return(None)
    ELSE LET slots == SlotsOf(ev)
             explicit == ExplicitQuery(slots, <<"query", "Query">>)
         IN  IF explicit.exc = "continue" THEN FirstValue(slots, 1)
             ELSE explicit

(***************************************************************************)
(* call_perplexity                                                         *)
(***************************************************************************)
\* mutant: "if PERPLEXITY_API_KEY is None"
ConfiguredNotNone(key) == key # None

\* "if not PERPLEXITY_API_KEY" is false
Configured(key) == Truthy(key)

\* What urlopen, read, decode and json.loads produce: an HTTPError with a
\* status code, a URLError, another exception (a timeout while reading, an
\* undecodable or non-JSON body), or a JSON value of some shape.
ReplyShapes ==
    {"not_object",           \* the body is JSON but no object
     "choices_missing", "choices_null", "choices_empty",
     "choice_not_object",    \* choices[0] has no method get
     "message_missing",
     "message_null",         \* "message": null
     "content_missing", "content_null", "content_empty",
     "content_not_string",   \* a truthy content that is no string
     "content"}              \* a non-empty string

ReplyTexts ==
    {<<"a">>, <<"*">>, <<"*", "a", "*">>, <<"-", "-", "a">>,
     <<"a", "\n", "-", " ", "b">>, <<"(", "a", ")", " ", " ", "b">>}

NoUpstream == [kind |-> "none", code |-> 0, shape |-> "", content |-> <<>>]

UpstreamOutcomes ==
    {[kind |-> "HTTPError", code |-> c, shape |-> "", content |-> <<>>] : c \in {401, 500}}
        \cup {[kind |-> k, code |-> 0, shape |-> "", content |-> <<>>] :
                 k \in {"URLError", "TimeoutError", "JSONDecodeError"}}
        \cup {[kind |-> "reply", code |-> 200, shape |-> sh, content |-> <<>>] :
                 sh \in ReplyShapes \ {"content"}}
        \cup {[kind |-> "reply", code |-> 200, shape |-> "content", content |-> t] :
                 t \in ReplyTexts}

\* lines 130-151, the body of the try statement
TryBody(u) ==
    IF u.kind # "reply" THEN Raise(u.kind)
    ELSE IF u.shape = "not_object" THEN Raise("AttributeError")
    ELSE IF u.shape \in {"choices_missing", "choices_null", "choices_empty"}
    THEN Return(Fixed(NO_USEFUL_RESPONSE))
    ELSE IF u.shape \in {"choice_not_object", "message_null"}
    THEN Raise("AttributeError")
    ELSE IF u.shape \in {"message_missing", "content_missing", "content_null",
                         "content_empty"}
    THEN Return(Fixed(NO_CONTENT))
    ELSE IF u.shape = "content_not_string" THEN Raise("TypeError")
    ELSE Return(Spoken(clean_text(u.content)))

\* mutant: "except ValueError"
CaughtByExceptValueError(e) == e = "JSONDecodeError"

\* the exception classes that "except Exception" catches
CaughtByExceptException(e) ==
    e \in {"HTTPError", "URLError", "TimeoutError", "JSONDecodeError",
           "AttributeError", "TypeError"}

\* lines 153-171, the except clauses in their order
ExceptClauses(u, r) ==
    IF r.exc = "none" THEN r
    ELSE IF r.exc = "HTTPError"
    THEN Return(Fixed(IF u.code = 401 THEN AUTH_FAILED ELSE PROBLEM_CONTACTING))
    ELSE IF r.exc = "URLError" THEN Return(Fixed(COULD_NOT_REACH))
    ELSE IF CaughtByExceptException(r.exc) THEN Return(Fixed(SOMETHING_WRONG))
    ELSE r

(***************************************************************************)
(* handler and speak                                                       *)
(***************************************************************************)
speak(t) ==
    [version |-> "1.0",
     response |-> [outputSpeech |-> [type |-> "PlainText", text |-> t],
                   shouldEndSession |-> FALSE]]

\* request.get("intent", {}).get("name", "")
IntentName(ev) == IF ev.intent.name = None THEN "" ELSE ev.intent.name

\* mutant: the test for AMAZON.FallbackIntent is missing
BranchNoFallback(ev) ==
    IF ev.type = "LaunchRequest" THEN "launch"
    ELSE IF ev.type = "IntentRequest" THEN "intent"
    ELSE "other"

\* lines 190-220: the branch handler takes
Branch(ev) ==
    IF ev.type = "LaunchRequest" THEN "launch"
    ELSE IF ev.type = "IntentRequest"
    THEN IF IntentName(ev) = "AMAZON.FallbackIntent" THEN "fallback" ELSE "intent"
    ELSE "other"

Init ==
    /\ event \in Events
    /\ apiKey \in ApiKeys
    /\ pc = "start"
    /\ query = None
    /\ upstream = NoUpstream
    /\ response = <<>>
    /\ raised = "none"
    /\ netCalls = 0
    /\ extractCalls = 0
    /\ perplexityCalls = 0
    /\ text = <<>>
    /\ cleaned = <<>>
    /\ recleaned = <<>>

\* lines 190-194
HandleLaunch ==
    /\ pc = "start"
    /\ Branch(event) = "launch"
    /\ response' = <<speak(Fixed(GREETING))>>
    /\ pc' = "returned"
    /\ UNCHANGED <<event, apiKey, query, upstream, raised, netCalls,
                   extractCalls, perplexityCalls, cleanVars>>

\* lines 202-206
HandleFallback ==
    /\ pc = "start"
    /\ Branch(event) = "fallback"
    /\ response' = <<speak(Fixed(CLARIFICATION))>>
    /\ pc' = "returned"
    /\ UNCHANGED <<event, apiKey, query, upstream, raised, netCalls,
                   extractCalls, perplexityCalls, cleanVars>>

\* lines 208-214: extract_query and the "no topic" return; an exception of
\* extract_query leaves handler, which has no try statement
HandleExtract ==
    /\ pc = "start"
    /\ Branch(event) = "intent"
    /\ extractCalls' = extractCalls + 1
    /\ LET r == extract_query(event)
       IN  IF r.exc # "none"
           THEN /\ raised' = r.exc
                /\ pc' = "raised"
                /\ UNCHANGED <<query, response>>
           ELSE /\ query' = r.value
                /\ raised' = raised
                /\ IF ~Truthy(r.value)
                   THEN /\ response' = <<speak(Fixed(NO_TOPIC))>>
                        /\ pc' = "returned"
                   ELSE /\ response' = response
                        /\ pc' = "call"
    /\ UNCHANGED <<event, apiKey, upstream, netCalls, perplexityCalls, cleanVars>>

\* lines 216-217 with lines 98-103: call_perplexity without a credential
CallNotConfigured ==
    /\ pc = "call"
    /\ ~Configured(apiKey)
    /\ perplexityCalls' = perplexityCalls + 1
    /\ response' = <<speak(Fixed(NOT_CONFIGURED))>>
    /\ pc' = "returned"
    /\ UNCHANGED <<event, apiKey, query, upstream, raised, netCalls,
                   extractCalls, cleanVars>>

\* line 216 with lines 105-132: call_perplexity sends the request
CallUrlopen ==
    /\ pc = "call"
    /\ Configured(apiKey)
    /\ perplexityCalls' = perplexityCalls + 1
    /\ netCalls' = netCalls + 1
    /\ upstream' \in UpstreamOutcomes
    /\ pc' = "called"
    /\ UNCHANGED <<event, apiKey, query, response, raised, extractCalls, cleanVars>>

\* lines 143-171 and line 217: the reply or the exception is turned into
\* the text handler speaks
HandleReply ==
    /\ pc = "called"
    /\ LET r == ExceptClauses(upstream, TryBody(upstream))
       IN  IF r.exc # "none"
           THEN /\ raised' = r.exc
                /\ pc' = "raised"
                /\ response' = response
           ELSE /\ response' = <<speak(r.value)>>
                /\ pc' = "returned"
                /\ raised' = raised
    /\ UNCHANGED <<event, apiKey, query, upstream, netCalls, extractCalls,
                   perplexityCalls, cleanVars>>

\* line 220
HandleOther ==
    /\ pc = "start"
    /\ Branch(event) = "other"
    /\ response' = <<speak(Fixed(GOODBYE))>>
    /\ pc' = "returned"
    /\ UNCHANGED <<event, apiKey, query, upstream, raised, netCalls,
                   extractCalls, perplexityCalls, cleanVars>>

Next ==
    \/ HandleLaunch
    \/ HandleFallback
    \/ HandleExtract
    \/ CallNotConfigured
    \/ CallUrlopen
    \/ HandleReply
    \/ HandleOther

Spec == Init /\ [][Next]_vars

(***************************************************************************)
(* The sanitizer on its own: an input text is drawn, clean_text is applied *)
(* to it, and then applied again to its own result.                        *)
(***************************************************************************)
Alphabet == {"a", "-", " ", "\n", "*"}

RECURSIVE Texts(_)
Texts(n) ==
    IF n = 0 THEN {<<>>}
    ELSE LET shorter == Texts(n - 1)
         IN  shorter \cup {Append(t, c) : t \in shorter, c \in Alphabet}

\* a long run of text: words of nine letters, one space between them
Fill(n) == [i \in 1..n |-> IF i % 10 = 0 THEN " " ELSE "x"]

FillLens == {max_len - k : k \in 0..FillSlack}

\* "**Hello** - world\n\nMore (info) [ref]"
ExampleInput ==
    <<"*", "*", "H", "e", "l", "l", "o", "*", "*", " ", "-", " ", "w", "o",
      "r", "l", "d", "\n", "\n", "M", "o", "r", "e", " ", "(", "i", "n", "f",
      "o", ")", " ", "[", "r", "e", "f", "]">>

\* short texts, texts about as long as the length limit, and the example
CleanInputs ==
    Texts(MaxShort)
        \cup {h \o Fill(n) \o t :
                 h \in Texts(MaxHead), n \in FillLens, t \in Texts(MaxTail)}
        \cup {ExampleInput}

InitClean ==
    /\ text \in CleanInputs
    /\ cleaned = <<>>
    /\ recleaned = <<>>
    /\ pc = "input"
    /\ event = [type |-> None,
                intent |-> [kind |-> "missing", name |-> None,
                            slots |-> [kind |-> "missing", items |-> <<>>]]]
    /\ apiKey = None
    /\ query = None
    /\ upstream = NoUpstream
    /\ response = <<>>
    /\ raised = "none"
    /\ netCalls = 0
    /\ extractCalls = 0
    /\ perplexityCalls = 0

Clean ==
    /\ pc = "input"
    /\ cleaned' = clean_text(text)
    /\ pc' = "cleaned"
    /\ UNCHANGED <<text, recleaned, handlerVars>>

CleanAgain ==
    /\ pc = "cleaned"
    /\ recleaned' = clean_text(cleaned)
    /\ pc' = "recleaned"
    /\ UNCHANGED <<text, cleaned, handlerVars>>

NextClean == Clean \/ CleanAgain

SpecClean == InitClean /\ [][NextClean]_vars


(***************************************************************************)
(* Properties of handler, checked under Spec.                              *)
(***************************************************************************)
Slots == SlotsOf(event)

SpokenText == response[1].response.outputSpeech.text

HasEnvelopeShape(r) ==
    /\ DOMAIN r = {"version", "response"}
    /\ r.version = "1.0"
    /\ DOMAIN r.response = {"outputSpeech", "shouldEndSession"}
    /\ r.response.shouldEndSession = FALSE
    /\ DOMAIN r.response.outputSpeech = {"type", "text"}
    /\ r.response.outputSpeech.type = "PlainText"

\* a slot entry that is an object with a non-empty value
HasNonEmptyValue(slot) == slot.kind = "object" /\ slot.value \notin {None, ""}

HasExplicitQuerySlot ==
    \E k \in {"query", "Query"} :
        HasKey(Slots, k) /\ HasNonEmptyValue(SlotsGet(Slots, k))

ExplicitQueryValue ==
    IF HasKey(Slots, "query") /\ HasNonEmptyValue(SlotsGet(Slots, "query"))
    THEN SlotsGet(Slots, "query").value
    ELSE SlotsGet(Slots, "Query").value

FirstNonEmptyIndex ==
    CHOOSE i \in 1..Len(Slots) :
        /\ HasNonEmptyValue(Slots[i].slot)
        /\ \A j \in 1..(i - 1) : ~HasNonEmptyValue(Slots[j].slot)

\* C1: every invocation of handler ends by returning a response of the
\* envelope shape {version "1.0", outputSpeech {PlainText, text},
\* shouldEndSession false}; no exception leaves handler.
C1_AlwaysEnvelope ==
    /\ raised = "none"
    /\ pc # "raised"
    /\ pc = "returned" => Len(response) = 1 /\ HasEnvelopeShape(response[1])

\* C2: once call_perplexity has been called it never raises to handler, and
\* what it returns is one of its fixed sentences or the sanitized content,
\* whatever the upstream call produced.
C2_CallNeverRaises ==
    perplexityCalls > 0 =>
        /\ raised = "none"
        /\ pc \in {"called", "returned"}
        /\ pc = "returned" =>
              \/ SpokenText.msg \in
                    {NOT_CONFIGURED, NO_USEFUL_RESPONSE, NO_CONTENT, AUTH_FAILED,
                     PROBLEM_CONTACTING, COULD_NOT_REACH, SOMETHING_WRONG}
              \/ SpokenText.msg = "" /\ upstream.shape = "content"

C2_Witness ==
    /\ pc = "returned"
    /\ upstream.kind = "reply"
    /\ upstream.shape = "choice_not_object"
    /\ SpokenText = Fixed(SOMETHING_WRONG)

\* C5: when the slot mapping of an IntentRequest holds a slot named query or
\* Query with a non-empty value, extract_query returns that value (the one of
\* query when both have one), whatever other slots are present.
C5_ExplicitSlotReturned ==
    extractCalls = 1 /\ HasExplicitQuerySlot =>
        raised = "none" /\ query = ExplicitQueryValue

\* C6: when no query/Query slot has a non-empty value but some slot has one,
\* extract_query returns the value of the first such slot in the mapping's
\* order, skipping the slots before it.
C6_FirstNonEmptyReturned ==
    (/\ extractCalls = 1
     /\ ~HasExplicitQuerySlot
     /\ \E i \in 1..Len(Slots) : HasNonEmptyValue(Slots[i].slot)) =>
        raised = "none" /\ query = Slots[FirstNonEmptyIndex].slot.value

\* C7: without a credential (None or empty) no network call is made at any
\* point of the invocation, and call_perplexity returns the fixed "not
\* configured" sentence.
C7_NoCredentialNoCall ==
    apiKey \in {None, ""} =>
        /\ netCalls = 0
        /\ upstream = NoUpstream
        /\ perplexityCalls > 0 =>
              pc = "returned" /\ SpokenText = Fixed(NOT_CONFIGURED)

C7_Witness ==
    apiKey = "" /\ perplexityCalls = 1 /\ pc = "returned" /\ query = "openai"

\* C8: an IntentRequest named AMAZON.FallbackIntent is answered with the
\* fixed clarification prompt whatever its slots hold; extract_query and
\* call_perplexity are not called.
C8_FallbackPrompt ==
    event.type = "IntentRequest" /\ event.intent.name = "AMAZON.FallbackIntent" =>
        /\ pc \in {"start", "returned"}
        /\ pc = "returned" => SpokenText = Fixed(CLARIFICATION)
        /\ extractCalls = 0
        /\ perplexityCalls = 0
        /\ netCalls = 0
        /\ query = None

C8_Witness ==
    /\ pc = "returned"
    /\ event.type = "IntentRequest"
    /\ event.intent.name = "AMAZON.FallbackIntent"
    /\ HasExplicitQuerySlot

\* C10: one invocation makes at most one network call, and makes it only for
\* an IntentRequest that is not the fallback intent, after extract_query
\* returned a non-empty query, with a credential configured; a failed call is
\* not retried.
C10_AtMostOneCall ==
    /\ netCalls <= 1
    /\ netCalls = 1 =>
          /\ event.type = "IntentRequest"
          /\ event.intent.name # "AMAZON.FallbackIntent"
          /\ extractCalls = 1
          /\ query \notin {None, ""}
          /\ apiKey \notin {None, ""}
    /\ (pc = "returned" /\ SpokenText.msg \in {GREETING, CLARIFICATION, NO_TOPIC, GOODBYE}) =>
          netCalls = 0

C10_Witness ==
    /\ pc = "returned"
    /\ netCalls = 1
    /\ upstream.kind = "URLError"
    /\ SpokenText = Fixed(COULD_NOT_REACH)

(***************************************************************************)
(* Properties of clean_text, checked under SpecClean.                      *)
(***************************************************************************)
\* "Hello world More info ref"
ClaimedExampleOutput ==
    <<"H", "e", "l", "l", "o", " ", "w", "o", "r", "l", "d", " ", "M", "o",
      "r", "e", " ", "i", "n", "f", "o", " ", "r", "e", "f">>

\* "Hello - world More info ref"
ExampleOutput ==
    <<"H", "e", "l", "l", "o", " ", "-", " ", "w", "o", "r", "l", "d", " ",
      "M", "o", "r", "e", " ", "i", "n", "f", "o", " ", "r", "e", "f">>

StartsWithDash(s) == s # <<>> /\ s[1] = "-"

\* the length limit cuts the normalized text right after a whitespace
CutAtSpace(s) ==
    LET t == Normalize(s) IN Len(t) > max_len /\ IsSpace(t[max_len])

\* C3 as stated: clean_text(clean_text(x)) = clean_text(x) for every input x.
C3_Idempotent == pc = "recleaned" => recleaned = cleaned

\* C3 amended: clean_text(clean_text(x)) = clean_text(x) for every input x
\* whose cleaned form does not start with a dash and whose normalized text
\* is not cut by the length limit right after a whitespace.
C3_IdempotentOnStableText ==
    (pc = "recleaned" /\ ~StartsWithDash(cleaned) /\ ~CutAtSpace(text)) =>
        recleaned = cleaned

C3_Witness ==
    /\ pc = "recleaned"
    /\ Len(cleaned) = max_len + Len(TRUNCATION_SUFFIX)
    /\ \E i \in 1..Len(text) : text[i] = "-"
    /\ recleaned = cleaned

\* C4 as stated: the example input is cleaned to "Hello world More info ref".
C4_ExampleDashRemoved ==
    (pc # "input" /\ text = ExampleInput) => cleaned = ClaimedExampleOutput

\* C4 amended: the example input is cleaned to "Hello - world More info
\* ref": the dash, which is not at the start of a line, stays.
C4_ExampleDashKept ==
    (pc # "input" /\ text = ExampleInput) => cleaned = ExampleOutput

C4_Witness == pc = "cleaned" /\ text = ExampleInput

\* C9: the result of clean_text is at most 700 + len(suffix) long; when the
\* normalized text is longer than 700 the result is a prefix of it of at
\* most 700 characters followed by the suffix, otherwise nothing is appended.
C9_LengthBound ==
    pc # "input" =>
        LET t == Normalize(text)
        IN  /\ Len(cleaned) <= max_len + Len(TRUNCATION_SUFFIX)
            /\ Len(t) > max_len =>
                  \E k \in (max_len - 1)..max_len :
                      cleaned = SubSeq(t, 1, k) \o TRUNCATION_SUFFIX
            /\ Len(t) <= max_len => cleaned = t

C9_Witness ==
    /\ pc = "cleaned"
    /\ Len(Normalize(text)) = max_len + 1
    /\ Len(cleaned) = max_len + Len(TRUNCATION_SUFFIX)
====
